---- MODULE Spec2Model ----
(***************************************************************************)
(* pdcloud: the Lib facade (pdcloud/core/model.py) over the AzureStorage   *)
(* adapter (pdcloud/adapters/azure.py).  The blob service is the state:    *)
(* the set of existing containers and, per container, the blobs it holds.  *)
(* A single caller drives one facade call at a time; read_all spawns one   *)
(* read task per listed object and gathers them.                           *)
(***************************************************************************)
EXTENDS Integers, Sequences, FiniteSets, TLC

(* ------------------------------ bounds -------------------------------- *)
\* at most MaxBlobs blobs are stored in the whole account
MaxBlobs == 2
\* tables have at most MaxRows rows
MaxRows == 2

(* ------------------------------ inputs -------------------------------- *)
\* Lib.container of the facade under test, and one other container
DefaultContainer == "testcontainer"
Containers == {"testcontainer", "other"}
\* the value of an omitted container argument
None == "None"
\* a caller names the other container or leaves the argument out
ContainerArgs == {None, "other"}

\* object names are strings, kept as sequences of characters; the tuple
\* is in the order in which the blob service lists names (lexicographic)
ObjectNames == << <<"a", "b">>, <<"b">>, <<"b", "a">> >>
Names == {ObjectNames[i] : i \in 1..Len(ObjectNames)}

\* regular expressions: a sequence of atoms, a literal character or "."
NoPattern == <<"None">>
Patterns == {<<"a">>, <<"b">>, <<".", "a">>}
PatternArgs == Patterns \cup {NoPattern}

Min(a, b) == IF a < b THEN a ELSE b

\* the two dataframes of tests/adapters/test_real_azure.py, rows in order
DF == << [column1 |-> 4, column2 |-> "d"], [column1 |-> 5, column2 |-> "e"],
         [column1 |-> 6, column2 |-> "f"] >>
DF1 == << [column1 |-> 1, column2 |-> "a"], [column1 |-> 2, column2 |-> "b"],
          [column1 |-> 3, column2 |-> "c"] >>
Take(t, k) == SubSeq(t, 1, Min(k, Len(t)))
\* the tables written: the empty one and the first MaxRows rows of each frame
Tables == {<<>>, Take(DF, MaxRows), Take(DF1, MaxRows)}

(* --------------------------- serialization ---------------------------- *)
\* as to_parquet with the rows stored last to first
to_parquet_reversed(data) ==
    [magic |-> "PAR1",
     column1 |-> [i \in 1..Len(data) |-> data[Len(data) + 1 - i].column1],
     column2 |-> [i \in 1..Len(data) |-> data[Len(data) + 1 - i].column2]]

\* DataFrame.to_parquet: the rows are stored column by column
to_parquet(data) ==
    [magic |-> "PAR1",
     column1 |-> [i \in 1..Len(data) |-> data[i].column1],
     column2 |-> [i \in 1..Len(data) |-> data[i].column2]]

\* bytes that are not a parquet file
Garbage == [magic |-> "junk", column1 |-> <<>>, column2 |-> <<>>]
Streams == {Garbage}

is_parquet(bytes) == bytes.magic = "PAR1"

\* pd.read_parquet on bytes that are a parquet file: rows rebuilt from columns
read_parquet(bytes) ==
    [i \in 1..Len(bytes.column1) |->
        [column1 |-> bytes.column1[i], column2 |-> bytes.column2[i]]]

(* ------------------------------ results ------------------------------- *)
\* what a call hands back: a value, None, or a raised exception
NoNames == <<>>
Blank == [kind |-> "none", error |-> "", table |-> <<>>, names |-> NoNames,
          flag |-> FALSE]
RetNone == Blank
RetTable(t) == [Blank EXCEPT !.kind = "table", !.table = t]
RetNames(ns) == [Blank EXCEPT !.kind = "names", !.names = ns]
RetBool(b) == [Blank EXCEPT !.kind = "bool", !.flag = b]
Raise(e) == [Blank EXCEPT !.kind = "raise", !.error = e]

(* --------------------------- the blob service -------------------------- *)
VARIABLES
    containers,   \* the containers that exist
    blobs,        \* blobs[c]: the blobs of container c, name -> bytes
    pc,           \* "idle", or "gathering" while read_all awaits its tasks
    tasks,        \* the read tasks of the latest read_all, in spawn order
    last,         \* the latest facade call: its arguments and its outcome
    writers       \* concurrent write calls in flight, each with its position

vars == <<containers, blobs, pc, tasks, last, writers>>

NoBlobs == [n \in {} |-> Garbage]
\* as an upload that left the container with the uploaded blob alone
Put_alone(f, o, bytes) == [n \in {o} |-> bytes]

Put(f, o, bytes) == [n \in DOMAIN f \cup {o} |-> IF n = o THEN bytes ELSE f[n]]
Drop(f, o) == [n \in DOMAIN f \ {o} |-> f[n]]

\* a store is the pair the blob service holds
StoreOf(cs, bs) == [containers |-> cs, blobs |-> bs]
Store == StoreOf(containers, blobs)

BlobCount(st) ==
    Cardinality({<<c, o>> \in Containers \X Names : o \in DOMAIN st.blobs[c]})

\* ContainerClient.exists / BlobClient.exists
container_client_exists(st, c) == c \in st.containers
blob_client_exists(st, c, o) == c \in st.containers /\ o \in DOMAIN st.blobs[c]

\* ContainerClient.create_container
create_container(st, c) == [st EXCEPT !.containers = @ \cup {c}]

\* BlobClient.upload_blob(data, overwrite=overwrite)
upload_blob(st, c, o, bytes, overwrite) ==
    IF ~container_client_exists(st, c)
    THEN [st |-> st, res |-> Raise("NotFound")]
    ELSE IF blob_client_exists(st, c, o) /\ ~overwrite
    THEN [st |-> st, res |-> Raise("AlreadyExists")]
    ELSE [st |-> [st EXCEPT !.blobs[c] = Put(@, o, bytes)], res |-> RetNone]

(* --------------------------- AzureStorage ------------------------------ *)
\* as _prepare_container_and_blob_client without the existence check
prepare_unchecked(st, c, o, overwrite) ==
    [st |-> IF ~container_client_exists(st, c)
            THEN create_container(st, c) ELSE st,
     client |-> TRUE]

\* as _prepare_container_and_blob_client if it did not create the container
prepare_without_create(st, c, o, overwrite) ==
    IF blob_client_exists(st, c, o) /\ ~overwrite
    THEN [st |-> st, client |-> FALSE]
    ELSE [st |-> st, client |-> TRUE]

\* AzureStorage._prepare_container_and_blob_client: creates the container if
\* absent; client is FALSE (None) when the blob exists and overwrite is off
prepare_container_and_blob_client(st, c, o, overwrite) ==
    LET st1 == IF ~container_client_exists(st, c)
               THEN create_container(st, c) ELSE st
    IN  IF blob_client_exists(st1, c, o) /\ ~overwrite
        THEN [st |-> st1, client |-> FALSE]
        ELSE [st |-> st1, client |-> TRUE]

\* AzureStorage.write_data
write_data(st, c, o, data, overwrite) ==
    LET p == prepare_container_and_blob_client(st, c, o, overwrite)
    IN  IF p.client
        THEN upload_blob(p.st, c, o, to_parquet(data), overwrite)
        ELSE [st |-> p.st, res |-> RetNone]

\* AzureStorage.write_stream
write_stream(st, stream, c, o, overwrite) ==
    LET p == prepare_container_and_blob_client(st, c, o, overwrite)
    IN  IF p.client
        THEN upload_blob(p.st, c, o, stream, overwrite)
        ELSE [st |-> p.st, res |-> RetNone]

\* AzureStorage.read_data; fault: the transport fails during the download
read_data(st, c, o, fault) ==
    IF fault THEN Raise("TransportError")
    ELSE IF ~blob_client_exists(st, c, o) THEN Raise("NotFound")
    ELSE IF ~is_parquet(st.blobs[c][o]) THEN Raise("FormatError")
    ELSE RetTable(read_parquet(st.blobs[c][o]))

\* as AzureStorage.delete_blob when the blob stays behind
delete_blob_kept(st, c, o) ==
    IF ~blob_client_exists(st, c, o)
    THEN [st |-> st, res |-> Raise("NotFound")]
    ELSE [st |-> st, res |-> RetNone]

\* as AzureStorage.delete_container when the blobs stay behind
delete_container_kept(st, c) ==
    IF ~container_client_exists(st, c)
    THEN [st |-> st, res |-> Raise("NotFound")]
    ELSE [st |-> [st EXCEPT !.containers = @ \ {c}], res |-> RetNone]

\* re.Pattern.match: the pattern must match at the start of the string
RECURSIVE match_here(_, _)
match_here(p, s) ==
    IF p = <<>> THEN TRUE
    ELSE IF s = <<>> THEN FALSE
    ELSE (Head(p) = "." \/ Head(p) = Head(s)) /\ match_here(Tail(p), Tail(s))

\* as re.Pattern.search: the pattern may match anywhere in the string
re_search(p, s) == \E k \in 0..Len(s) : match_here(p, SubSeq(s, k + 1, Len(s)))

re_match(p, s) == match_here(p, s)

\* ContainerClient.list_blobs: the names of the container, in listing order
list_blobs(st, c) == SelectSeq(ObjectNames, LAMBDA n : n \in DOMAIN st.blobs[c])

\* AzureStorage.list_objects
list_objects(st, c, regex_pattern) ==
    IF ~container_client_exists(st, c) THEN Raise("NotFound")
    ELSE IF regex_pattern # NoPattern
    THEN RetNames(SelectSeq(list_blobs(st, c),
                            LAMBDA n : re_match(regex_pattern, n)))
    ELSE RetNames(list_blobs(st, c))

\* AzureStorage.blob_exists / container_exists
blob_exists(st, c, o) == RetBool(blob_client_exists(st, c, o))
container_exists(st, c) == RetBool(container_client_exists(st, c))

\* AzureStorage.delete_blob: ResourceNotFoundError is logged and re-raised
delete_blob(st, c, o) ==
    IF ~blob_client_exists(st, c, o)
    THEN [st |-> st, res |-> Raise("NotFound")]
    ELSE [st |-> [st EXCEPT !.blobs[c] = Drop(@, o)], res |-> RetNone]

\* AzureStorage.delete_container: the container goes with all its blobs
delete_container(st, c) ==
    IF ~container_client_exists(st, c)
    THEN [st |-> st, res |-> Raise("NotFound")]
    ELSE [st |-> [st EXCEPT !.containers = @ \ {c}, !.blobs[c] = NoBlobs],
          res |-> RetNone]

(* -------------------------------- Lib ---------------------------------- *)
\* `container or self.container`
Resolve(container) == IF container = None THEN DefaultContainer ELSE container

\* as _fetch_data_object without its try/except
fetch_data_object_raising(st, data_object, fault) ==
    read_data(st, DefaultContainer, data_object, fault)

\* Lib._fetch_data_object: any exception of the port is printed and None returned
fetch_data_object(st, data_object, fault) ==
    LET r == read_data(st, DefaultContainer, data_object, fault)
    IN  IF r.kind = "raise" THEN RetNone ELSE r

\* Lib.write
Lib_write(st, data_object, data, container, overwrite) ==
    write_data(st, Resolve(container), data_object, data, overwrite)

\* Lib.get_objects
get_objects(st, container, regex_pattern) ==
    list_objects(st, Resolve(container), regex_pattern)

\* as Lib.delete with the exception swallowed the way Lib.read does
Lib_delete_swallowing(st, data_object) ==
    LET out == delete_blob(st, DefaultContainer, data_object)
    IN  IF out.res.kind = "raise" THEN [st |-> out.st, res |-> RetNone] ELSE out

\* Lib.delete: always the facade's own container
Lib_delete(st, data_object) == delete_blob(st, DefaultContainer, data_object)

\* Lib.delete_container
Lib_delete_container(st, container) == delete_container(st, Resolve(container))

\* Lib.blob_exists / Lib.container_exists
Lib_blob_exists(st, data_object, container) ==
    blob_exists(st, Resolve(container), data_object)
Lib_container_exists(st, container) == container_exists(st, Resolve(container))

\* Lib._fetch_all, the loop: one task per listed object, in listing order
\* rank: the position of the task in the order of completion, 0 while pending
NewTask(o) == [object |-> o, status |-> "pending", table |-> <<>>, error |-> "",
               rank |-> 0]

\* as the loop of _fetch_all, passing over the first listed object
spawn_tasks_but_first(listing) ==
    [i \in 1..(Len(listing) - 1) |-> NewTask(listing[i + 1])]

spawn_tasks(listing) == [i \in 1..Len(listing) |-> NewTask(listing[i])]

\* a task running storage.read_data to its end
settle(task, r) ==
    IF r.kind = "raise"
    THEN [task EXCEPT !.status = "failed", !.error = r.error]
    ELSE [task EXCEPT !.status = "done", !.table = r.table]

\* asyncio.gather(*tasks), return_exceptions left False: the first exception
\* of a task is the outcome at once; otherwise the outcome waits for all tasks
gather(outcome, r) ==
    IF outcome.kind = "running" /\ r.kind = "raise" THEN Raise(r.error)
    ELSE outcome

\* the number of tasks that have run to their end
Settled(ts) == Cardinality({i \in 1..Len(ts) : ts[i].status # "pending"})

AllDone(ts) == \A i \in 1..Len(ts) : ts[i].status = "done"
gather_settled(outcome, ts) == outcome.kind = "raise" \/ AllDone(ts)

\* pd.concat: rows of the frames one after the other; no frames is a ValueError
RECURSIVE concat_rows(_)
concat_rows(frames) ==
    IF frames = <<>> THEN <<>> ELSE Head(frames) \o concat_rows(Tail(frames))

\* as pd.concat if no frames gave an empty frame
pd_concat_lenient(frames) == RetTable(concat_rows(frames))

pd_concat(frames) ==
    IF Len(frames) = 0 THEN Raise("ValueError")
    ELSE RetTable(concat_rows(frames))

\* the task that completed k-th
Completed(ts, k) == CHOOSE i \in 1..Len(ts) : ts[i].rank = k

\* as read_all if the tables came in the order in which the reads completed
read_all_result_as_completed(outcome, ts) ==
    IF outcome.kind = "raise" THEN outcome
    ELSE pd_concat([k \in 1..Len(ts) |-> ts[Completed(ts, k)].table])

\* Lib.read_all, once the gather has an outcome
read_all_result(outcome, ts) ==
    IF outcome.kind = "raise" THEN outcome
    ELSE pd_concat([i \in 1..Len(ts) |-> ts[i].table])

(* ------------------------------ the calls ------------------------------ *)
NoCall == [op |-> "none", container |-> None, object |-> <<>>, data |-> <<>>,
           stream |-> Garbage, overwrite |-> FALSE, pattern |-> NoPattern,
           fault |-> FALSE, res |-> Blank]
Call(op) == [NoCall EXCEPT !.op = op]
Running == [Blank EXCEPT !.kind = "running"]

Init ==
    /\ containers = {}
    /\ blobs = [c \in Containers |-> NoBlobs]
    /\ pc = "idle"
    /\ tasks = <<>>
    /\ last = NoCall
    /\ writers = <<>>

\* the store after a call, and what the call returned
Done(out, call) ==
    /\ BlobCount(out.st) <= MaxBlobs
    /\ containers' = out.st.containers
    /\ blobs' = out.st.blobs
    /\ last' = [call EXCEPT !.res = out.res]
    /\ pc' = "idle"
    /\ tasks' = <<>>
    /\ UNCHANGED writers

Answer(res, call) == Done([st |-> Store, res |-> res], call)

Write(o, data, c, overwrite) ==
    /\ pc = "idle"
    /\ Done(Lib_write(Store, o, data, c, overwrite),
            [Call("write") EXCEPT !.object = o, !.data = data, !.container = c,
                                  !.overwrite = overwrite])

WriteStream(stream, c, o, overwrite) ==
    /\ pc = "idle"
    /\ Done(write_stream(Store, stream, c, o, overwrite),
            [Call("write_stream") EXCEPT !.object = o, !.stream = stream,
                                         !.container = c, !.overwrite = overwrite])

Read(o, fault) ==
    /\ pc = "idle"
    /\ Answer(fetch_data_object(Store, o, fault),
              [Call("read") EXCEPT !.object = o, !.fault = fault])

GetObjects(c, pattern) ==
    /\ pc = "idle"
    /\ Answer(get_objects(Store, c, pattern),
              [Call("get_objects") EXCEPT !.container = c, !.pattern = pattern])

Delete(o) ==
    /\ pc = "idle"
    /\ Done(Lib_delete(Store, o), [Call("delete") EXCEPT !.object = o])

DeleteContainer(c) ==
    /\ pc = "idle"
    /\ Done(Lib_delete_container(Store, c),
            [Call("delete_container") EXCEPT !.container = c])

BlobExists(o, c) ==
    /\ pc = "idle"
    /\ Answer(Lib_blob_exists(Store, o, c),
              [Call("blob_exists") EXCEPT !.object = o, !.container = c])

ContainerExists(c) ==
    /\ pc = "idle"
    /\ Answer(Lib_container_exists(Store, c),
              [Call("container_exists") EXCEPT !.container = c])

\* the methods of Lib whose signature has a container parameter
ContainerParam ==
    {"write", "get_objects", "delete_container", "blob_exists",
     "container_exists"}

\* a call that names a container: Python raises TypeError at the call when
\* the method has no such parameter, before any of its code runs
bind(op, container) ==
    IF container # None /\ op \notin ContainerParam
    THEN Raise("TypeError") ELSE RetNone

\* read, delete and read_all called with container=c
ReadIn(o, c) ==
    /\ pc = "idle"
    /\ bind("read", c).kind = "raise"
    /\ Answer(bind("read", c),
              [Call("read") EXCEPT !.object = o, !.container = c])

DeleteIn(o, c) ==
    /\ pc = "idle"
    /\ bind("delete", c).kind = "raise"
    /\ Answer(bind("delete", c),
              [Call("delete") EXCEPT !.object = o, !.container = c])

ReadAllIn(c) ==
    /\ pc = "idle"
    /\ bind("read_all", c).kind = "raise"
    /\ Answer(bind("read_all", c), [Call("read_all") EXCEPT !.container = c])

\* read_all enters _fetch_all: self.get_objects() and one task per name
ReadAllStart ==
    /\ pc = "idle"
    /\ LET listing == get_objects(Store, None, NoPattern)
       IN  IF listing.kind = "raise"
           THEN Answer(listing, Call("read_all"))
           ELSE /\ tasks' = spawn_tasks(listing.names)
                /\ pc' = "gathering"
                /\ last' = [Call("read_all") EXCEPT !.res = Running]
                /\ UNCHANGED <<containers, blobs, writers>>

\* one pending task of the gather finishes its read_data
TaskSettle(i, fault) ==
    /\ pc = "gathering"
    /\ i \in 1..Len(tasks)
    /\ tasks[i].status = "pending"
    /\ LET r == read_data(Store, DefaultContainer, tasks[i].object, fault)
       IN  /\ tasks' = [tasks EXCEPT
                          ![i] = [settle(@, r) EXCEPT !.rank = Settled(tasks) + 1]]
           /\ last' = [last EXCEPT !.res = gather(@, r)]
    /\ UNCHANGED <<containers, blobs, pc, writers>>

\* the gather has its outcome: _fetch_all resumes and read_all returns
ReadAllReturn ==
    /\ pc = "gathering"
    /\ gather_settled(last.res, tasks)
    /\ last' = [last EXCEPT !.res = read_all_result(@, tasks)]
    /\ pc' = "idle"
    /\ UNCHANGED <<containers, blobs, tasks, writers>>

Next ==
    \/ \E o \in Names, data \in Tables, c \in ContainerArgs, ow \in BOOLEAN :
          Write(o, data, c, ow)
    \/ \E s \in Streams, c \in Containers, o \in Names, ow \in BOOLEAN :
          WriteStream(s, c, o, ow)
    \/ \E o \in Names, fault \in BOOLEAN : Read(o, fault)
    \/ \E c \in ContainerArgs, p \in PatternArgs : GetObjects(c, p)
    \/ \E o \in Names : Delete(o)
    \/ \E c \in ContainerArgs : DeleteContainer(c)
    \/ \E o \in Names, c \in ContainerArgs : BlobExists(o, c)
    \/ \E c \in ContainerArgs : ContainerExists(c)
    \/ \E o \in Names, c \in ContainerArgs : ReadIn(o, c)
    \/ \E o \in Names, c \in ContainerArgs : DeleteIn(o, c)
    \/ \E c \in ContainerArgs : ReadAllIn(c)
    \/ ReadAllStart
    \/ \E i \in 1..Len(ObjectNames), fault \in BOOLEAN : TaskSettle(i, fault)
    \/ ReadAllReturn

Spec == Init /\ [][Next]_vars

(* ------------------------- two concurrent writers ---------------------- *)
\* two callers run Lib.write on the facade's container at the same time; a
\* write_data coroutine yields between _prepare_container_and_blob_client
\* and upload_blob, so the two may interleave there
Writers == 1..2
NewWriter(o, data, overwrite) ==
    [object |-> o, data |-> data, overwrite |-> overwrite, pc |-> "start",
     res |-> Blank]

RaceInit ==
    /\ containers = {}
    /\ blobs = [c \in Containers |-> NoBlobs]
    /\ pc = "idle"
    /\ tasks = <<>>
    /\ last = NoCall
    /\ writers \in [Writers -> {NewWriter(o, data, ow) :
                                  o \in Names, data \in Tables, ow \in BOOLEAN}]

\* write_data up to its first await: the existence checks
WriterPrepare(w) ==
    /\ writers[w].pc = "start"
    /\ LET p == prepare_container_and_blob_client(
                    Store, DefaultContainer, writers[w].object,
                    writers[w].overwrite)
       IN  /\ containers' = p.st.containers
           /\ blobs' = p.st.blobs
           /\ writers' = [writers EXCEPT
                             ![w].pc = IF p.client THEN "upload" ELSE "done",
                             ![w].res = RetNone]
    /\ UNCHANGED <<pc, tasks, last>>

\* write_data after the checks: the upload, whose exception leaves the call
WriterUpload(w) ==
    /\ writers[w].pc = "upload"
    /\ LET out == upload_blob(Store, DefaultContainer, writers[w].object,
                              to_parquet(writers[w].data), writers[w].overwrite)
       IN  /\ containers' = out.st.containers
           /\ blobs' = out.st.blobs
           /\ writers' = [writers EXCEPT ![w].pc = "done", ![w].res = out.res]
    /\ UNCHANGED <<pc, tasks, last>>

RaceNext ==
    \/ \E w \in Writers : WriterPrepare(w)
    \/ \E w \in Writers : WriterUpload(w)

SpecRace == RaceInit /\ [][RaceNext]_vars

TypeOK ==
    /\ containers \subseteq Containers
    /\ \A c \in Containers : DOMAIN blobs[c] \subseteq Names
    /\ pc \in {"idle", "gathering"}
    /\ BlobCount(Store) <= MaxBlobs

(* ------------------------------ properties ----------------------------- *)
StoreNext == StoreOf(containers', blobs')
Target(call) == Resolve(call.container)
Returned(call) == call.res.kind # "raise"
WriteOps == {"write", "write_stream"}

\* C1 (write-skip): a write with overwrite=false to an object that already
\* exists returns without error and leaves the store as it was, so reading
\* the object still yields the table it held before, not the one passed in.
WriteSkip ==
    [][(/\ last'.op = "write"
        /\ ~last'.overwrite
        /\ blob_client_exists(Store, Target(last'), last'.object))
       => /\ Returned(last')
          /\ blobs' = blobs
          /\ containers' = containers
          /\ read_data(StoreNext, Target(last'), last'.object, FALSE)
               = read_data(Store, Target(last'), last'.object, FALSE)]_vars

\* a skipped write: the object holds a table other than the one passed in
WriteSkipWitness ==
    /\ last.op = "write"
    /\ ~last.overwrite
    /\ Returned(last)
    /\ blob_client_exists(Store, Target(last), last.object)
    /\ read_data(Store, Target(last), last.object, FALSE).kind = "table"
    /\ read_data(Store, Target(last), last.object, FALSE) # RetTable(last.data)

\* C2 (round trip): after a write that returns, with overwrite=true or to an
\* absent object, reading the object yields the table written (same columns,
\* values and row order); calls other than writes and deletes leave every
\* stored object as it is.
RoundTrip ==
    [][/\ (/\ last'.op = "write"
           /\ Returned(last')
           /\ (last'.overwrite
                 \/ ~blob_client_exists(Store, Target(last'), last'.object)))
          => read_data(StoreNext, Target(last'), last'.object, FALSE)
               = RetTable(last'.data)
       /\ last'.op \notin WriteOps \cup {"delete", "delete_container"}
          => blobs' = blobs]_vars

\* an overwriting write of a table with rows, now readable
RoundTripWitness ==
    /\ last.op = "write"
    /\ last.overwrite
    /\ Returned(last)
    /\ Len(last.data) = MaxRows
    /\ read_data(Store, Target(last), last.object, FALSE) = RetTable(last.data)

\* the read tasks of the returned read_all, by how they ended
Failed(ts) == {i \in 1..Len(ts) : ts[i].status = "failed"}
Succeeded(ts) == {i \in 1..Len(ts) : ts[i].status = "done"}
ReadAllReturned == pc = "idle" /\ last.op = "read_all"

RECURSIVE Sum(_)
Sum(ns) == IF ns = <<>> THEN 0 ELSE Head(ns) + Sum(Tail(ns))

\* the rows the tasks that succeeded have read, in task order
RowsOfSucceeded(ts) ==
    concat_rows([i \in 1..Len(ts) |->
                    IF ts[i].status = "done" THEN ts[i].table ELSE <<>>])

\* C3 (partial failure): when exactly one of the N reads of read_all fails
\* and the others succeed, read_all raises nothing and returns the rows of
\* the other N-1 objects.
PartialFailure ==
    (/\ ReadAllReturned
     /\ Cardinality(Failed(tasks)) = 1
     /\ Cardinality(Succeeded(tasks)) = Len(tasks) - 1)
    => /\ last.res.kind = "table"
       /\ last.res.table = RowsOfSucceeded(tasks)

\* the stored tables of the facade's container, object by object
StoredRowCounts ==
    [i \in 1..Len(ObjectNames) |->
        IF ObjectNames[i] \in DOMAIN blobs[DefaultContainer]
        THEN Len(blobs[DefaultContainer][ObjectNames[i]].column1) ELSE 0]

Occurrences(t, row) == Cardinality({i \in 1..Len(t) : t[i] = row})
StoredOccurrences(row) ==
    Sum([i \in 1..Len(ObjectNames) |->
        IF ObjectNames[i] \in DOMAIN blobs[DefaultContainer]
        THEN Cardinality({k \in 1..Len(blobs[DefaultContainer][ObjectNames[i]].column1) :
                 /\ blobs[DefaultContainer][ObjectNames[i]].column1[k] = row.column1
                 /\ blobs[DefaultContainer][ObjectNames[i]].column2[k] = row.column2})
        ELSE 0])
AllRows == {DF[i] : i \in 1..Len(DF)} \cup {DF1[i] : i \in 1..Len(DF1)}

\* C4 (fan-out completeness): when read_all ran over N >= 1 objects and all
\* N reads succeeded, every object was read exactly once and the result
\* holds every stored row as often as the stored tables do, so its row
\* count is the sum of the row counts of the stored tables.
FanOutComplete ==
    (ReadAllReturned /\ Len(tasks) >= 1 /\ AllDone(tasks))
    => /\ last.res.kind = "table"
       /\ Len(last.res.table) = Sum(StoredRowCounts)
       /\ \A row \in AllRows :
             Occurrences(last.res.table, row) = StoredOccurrences(row)
       /\ \A o \in DOMAIN blobs[DefaultContainer] :
             Cardinality({i \in 1..Len(tasks) : tasks[i].object = o}) = 1
       /\ Len(tasks) = Cardinality(DOMAIN blobs[DefaultContainer])

\* read_all over two objects with rows, all read
FanOutCompleteWitness ==
    /\ ReadAllReturned
    /\ Len(tasks) = 2
    /\ AllDone(tasks)
    /\ Len(last.res.table) = 2 * MaxRows

\* C5 (best-effort read): Lib.read, called with the object alone, never raises; when the port's read_data
\* fails (object absent, bytes not decodable, transport failure) it returns
\* None; and it leaves the store unchanged.
BestEffortRead ==
    [][(last'.op = "read" /\ last'.container = None)
       => /\ containers' = containers
          /\ blobs' = blobs
          /\ Returned(last')
          /\ (\/ last'.fault
              \/ ~blob_client_exists(Store, DefaultContainer, last'.object)
              \/ ~is_parquet(blobs[DefaultContainer][last'.object]))
             => last'.res = RetNone]_vars

\* a read of stored bytes that are no parquet file returned None
BestEffortReadWitness ==
    /\ last.op = "read"
    /\ ~last.fault
    /\ blob_client_exists(Store, DefaultContainer, last.object)
    /\ ~is_parquet(blobs[DefaultContainer][last.object])
    /\ last.res = RetNone

\* a blob appears only by a write or write_stream naming it
CreatedByWrite(c, o) ==
    (o \notin DOMAIN blobs[c] /\ o \in DOMAIN blobs'[c])
    => /\ last'.op \in WriteOps
       /\ Target(last') = c
       /\ last'.object = o

\* C6 (delete): after delete(O) returns without error blob_exists(O) answers
\* false, and it answers false until a write names O again.
DeleteThenAbsent ==
    [][/\ (last'.op = "delete" /\ Returned(last'))
          => Lib_blob_exists(StoreNext, last'.object, None) = RetBool(FALSE)
       /\ \A o \in Names :
            (/\ ~Lib_blob_exists(Store, o, None).flag
             /\ Lib_blob_exists(StoreNext, o, None).flag)
            => /\ last'.op \in WriteOps
               /\ Target(last') = DefaultContainer
               /\ last'.object = o]_vars

\* a delete that returned, with another object left in the container
DeleteThenAbsentWitness ==
    /\ last.op = "delete"
    /\ Returned(last)
    /\ DOMAIN blobs[DefaultContainer] # {}

\* C7 (delete_container): after delete_container(C) returns without error
\* container_exists(C) answers false and C holds no object; an object is in
\* C afterwards only by a write that names it.
DeleteContainerThenGone ==
    [][/\ (last'.op = "delete_container" /\ Returned(last'))
          => /\ Lib_container_exists(StoreNext, last'.container) = RetBool(FALSE)
             /\ DOMAIN blobs'[Target(last')] = {}
       /\ \A c \in Containers, o \in Names : CreatedByWrite(c, o)]_vars

\* a delete_container that returned, the other container still holding a blob
DeleteContainerThenGoneWitness ==
    /\ last.op = "delete_container"
    /\ Returned(last)
    /\ Target(last) \notin containers
    /\ \E c \in containers : DOMAIN blobs[c] # {}

\* C8 (delete of an absent target): delete(O), called with the object alone, of an object that does not
\* exist and delete_container(C) of a container that does not exist raise
\* NotFound to the caller and leave containers and objects unchanged.
DeleteAbsentRaises ==
    [][/\ (/\ last'.op = "delete"
           /\ last'.container = None
           /\ ~blob_client_exists(Store, DefaultContainer, last'.object))
          => /\ last'.res = Raise("NotFound")
             /\ containers' = containers /\ blobs' = blobs
       /\ (/\ last'.op = "delete_container"
           /\ ~container_client_exists(Store, Target(last')))
          => /\ last'.res = Raise("NotFound")
             /\ containers' = containers /\ blobs' = blobs]_vars

\* a delete of an absent object in an existing container raised NotFound
DeleteAbsentRaisesWitness ==
    /\ last.op = "delete"
    /\ last.res = Raise("NotFound")
    /\ DefaultContainer \in containers
    /\ last.object \notin DOMAIN blobs[DefaultContainer]

\* the pattern fits the first characters of the name
MatchesBeginning(p, n) ==
    /\ Len(p) <= Len(n)
    /\ \A i \in 1..Len(p) : p[i] = "." \/ p[i] = n[i]

\* C9 (listing filter): get_objects without a pattern returns the names of
\* all objects of the container; with a pattern it returns exactly the
\* names whose beginning the pattern matches, in listing order.
ListingFilter ==
    (last.op = "get_objects" /\ Returned(last))
    => /\ last.res.kind = "names"
       /\ last.res.names =
            SelectSeq(ObjectNames,
               LAMBDA n : /\ n \in DOMAIN blobs[Target(last)]
                          /\ (\/ last.pattern = NoPattern
                              \/ MatchesBeginning(last.pattern, n)))

\* pattern "a" listed "ab" and left out the stored "ba"
ListingFilterWitness ==
    /\ last.op = "get_objects"
    /\ last.pattern = <<"a">>
    /\ <<"b", "a">> \in DOMAIN blobs[Target(last)]
    /\ last.res = RetNames(<< <<"a", "b">> >>)

\* C10 (empty container): read_all over a container with no objects ends
\* in an error, never in a table.
ReadAllEmptyFails ==
    (ReadAllReturned /\ DOMAIN blobs[DefaultContainer] = {})
    => last.res.kind = "raise"

\* read_all of an existing container without objects raised ValueError
ReadAllEmptyFailsWitness ==
    /\ ReadAllReturned
    /\ DefaultContainer \in containers
    /\ DOMAIN blobs[DefaultContainer] = {}
    /\ last.res = Raise("ValueError")

\* C11 (no return before the tasks settle): when read_all returns, with a
\* value or with an error, none of the read tasks it spawned is pending.
AllSettledAtReturn ==
    ReadAllReturned => \A i \in 1..Len(tasks) : tasks[i].status # "pending"

\* the stored tables of the facade's container, in listing order
StoredTablesInListingOrder ==
    LET listing == list_blobs(Store, DefaultContainer)
    IN  [i \in 1..Len(listing) |->
            read_parquet(blobs[DefaultContainer][listing[i]])]

\* C12 (listing order): when all reads succeed, read_all returns the stored
\* tables concatenated in the order in which list_objects names them, in
\* whatever order the reads completed.
ListingOrderResult ==
    (ReadAllReturned /\ Len(tasks) >= 1 /\ AllDone(tasks))
    => last.res = RetTable(concat_rows(StoredTablesInListingOrder))

\* the second listed object was read before the first, with other rows
ListingOrderResultWitness ==
    /\ ReadAllReturned
    /\ Len(tasks) = 2
    /\ AllDone(tasks)
    /\ tasks[2].rank = 1
    /\ tasks[1].rank = 2
    /\ tasks[1].table # tasks[2].table
    /\ Len(tasks[1].table) = MaxRows
    /\ Len(tasks[2].table) = MaxRows

\* C13 (racing writers): two writes with overwrite=false to the same object,
\* absent at first, each checking and then uploading, both return without
\* an error.
RacingWritersReturn ==
    (/\ \A w \in Writers : writers[w].pc = "done" /\ ~writers[w].overwrite
     /\ writers[1].object = writers[2].object)
    => \A w \in Writers : Returned(writers[w])

\* the errors the port and pandas raise
PortErrors == {"NotFound", "FormatError", "TransportError", "ValueError"}

\* C14 (container defaulting): read, read_all and delete called with a
\* container act on that container, as write, get_objects, delete_container,
\* blob_exists and container_exists do: what they return or raise is what
\* the port gives for the named container.
ContainerDefaulting ==
    (/\ pc = "idle"
     /\ last.op \in {"read", "read_all", "delete"}
     /\ last.container # None)
    => /\ last.res.kind = "raise" => last.res.error \in PortErrors
       /\ (last.op = "read" /\ last.res.kind = "table")
          => last.res.table = read_parquet(blobs[Target(last)][last.object])
       /\ last.op = "delete" => last.object \notin DOMAIN blobs[Target(last)]

\* C15 (implicit container creation): a write to a container that does not
\* exist creates it and returns; after every write that returns,
\* container_exists of its container answers true; and every stored object
\* is in a container that exists.
ImplicitContainer ==
    [][/\ (last'.op = "write" /\ ~container_client_exists(Store, Target(last')))
          => /\ Returned(last')
             /\ Lib_container_exists(StoreNext, last'.container) = RetBool(TRUE)
       /\ (last'.op = "write" /\ Returned(last'))
          => Lib_container_exists(StoreNext, last'.container) = RetBool(TRUE)
       /\ \A c \in Containers : DOMAIN blobs'[c] # {} => c \in containers']_vars

\* a write made the other container, which holds just the object written
ImplicitContainerWitness ==
    /\ last.op = "write"
    /\ last.container = "other"
    /\ Returned(last)
    /\ containers = {"other"}
    /\ DOMAIN blobs["other"] = {last.object}

\* the object (c, o) is stored or not, and with the same bytes, as before
SameObject(c, o) ==
    /\ (o \in DOMAIN blobs'[c]) = (o \in DOMAIN blobs[c])
    /\ o \in DOMAIN blobs[c] => blobs'[c][o] = blobs[c][o]

\* C16 (frame): write and delete change at most the object they name, a
\* write besides making its container exist; every other object, in that
\* container and in the others, stays as it was; read, read_all, get_objects,
\* blob_exists and container_exists change nothing in the store.
SingleObjectFrame ==
    [][/\ last'.op \in {"write", "delete"}
          => /\ \A c \in Containers, o \in Names :
                   <<c, o>> # <<Target(last'), last'.object>> => SameObject(c, o)
             /\ containers \subseteq containers'
             /\ containers' \ containers \subseteq
                   IF last'.op = "write" THEN {Target(last')} ELSE {}
       /\ last'.op \in {"read", "read_all", "get_objects", "blob_exists",
                        "container_exists"}
          => containers' = containers /\ blobs' = blobs]_vars

\* a write that stored its table next to another object of the container
SingleObjectFrameWitness ==
    /\ last.op = "write"
    /\ Returned(last)
    /\ last.object \in DOMAIN blobs[Target(last)]
    /\ blobs[Target(last)][last.object] = to_parquet(last.data)
    /\ DOMAIN blobs[Target(last)] # {last.object}

====
